---- MODULE Spec2Model ----
(***************************************************************************)
(* Model of process_card_data (sage_clean.py): the cleaning pipeline that  *)
(* turns a raw exported table into the card-transaction table.             *)
(*                                                                         *)
(* A text cell is the sequence of its characters; the missing value (NaN)  *)
(* is the one-element sequence NaN, which no text equals because every     *)
(* element of a text is a single character.  A data frame is a record      *)
(* [columns, index, rows]: the column labels, the row labels and the rows, *)
(* each row a sequence of cells aligned with columns.                      *)
(***************************************************************************)
EXTENDS Integers, Sequences, FiniteSets, TLC

VARIABLES
    df_in,                  \* the data frame handed to process_card_data
    rows_to_delete_top,     \* parameter
    rows_to_delete_bottom,  \* parameter
    pc,                     \* position in process_card_data
    df,                     \* the local df
    verified_header_index,  \* local, None until found
    card_cols,              \* local of step 8
    chosen_col,             \* local of step 8
    existing_cols,          \* local of step 10
    check_cols,             \* local of step 11
    ret                     \* the returned value, NotReturned until the return

vars == << df_in, rows_to_delete_top, rows_to_delete_bottom, pc, df,
           verified_header_index, card_cols, chosen_col, existing_cols,
           check_cols, ret >>

-----------------------------------------------------------------------------
(* Values *)

NaN == << "NaN" >>

\* chosen_col = None
None == << "None" >>

\* the value of  return None, and of a call that has not returned yet
ReturnedNone == [ none |-> TRUE ]
NotReturned == [ returned |-> FALSE ]

\* verified_header_index = None, before the scan finds a row
NoIndex == -1

Digits == { "0", "1", "2", "3", "4", "5", "6", "7", "8", "9" }
Whitespace == { " ", "\t" }

sVerified == << "V", "e", "r", "i", "f", "i", "e", "d" >>
sDate == << "D", "a", "t", "e" >>
sPayee == << "P", "a", "y", "e", "e" >>
sCharges == << "C", "h", "a", "r", "g", "e", "s" >>
sRecord == << "R", "e", "c", "o", "r", "d", "#" >>
sCardHolderName == << "C", "a", "r", "d", "H", "o", "l", "d", "e", "r",
                      "N", "a", "m", "e" >>
sCardNo == << "C", "a", "r", "d", " ", "N", "o", "." >>
sNan == << "n", "a", "n" >>

HeaderWindow == 10
SampleSize == 20

-----------------------------------------------------------------------------
(* Strings *)

Min(S) == CHOOSE x \in S : \A y \in S : x <= y
Max(S) == CHOOSE x \in S : \A y \in S : x >= y

\* pd.isnull(x)
IsNull(c) == c = NaN

\* str(x) / astype(str): the missing value prints as "nan"
ToStr(c) == IF IsNull(c) THEN sNan ELSE c

\* Python's  sub in s
Contains(sub, s) ==
    \E i \in 0 .. (Len(s) - Len(sub)) : SubSeq(s, i + 1, i + Len(sub)) = sub

\* s.startswith(p)
StartsWith(s, p) == Len(s) >= Len(p) /\ SubSeq(s, 1, Len(p)) = p

\* s.strip()
Strip(s) ==
    LET keep == { i \in 1 .. Len(s) : s[i] \notin Whitespace }
    IN  IF keep = {} THEN << >> ELSE SubSeq(s, Min(keep), Max(keep))

\* re.search(r"\d+", val) is not None
HasDigit(s) == \E i \in 1 .. Len(s) : s[i] \in Digits

\* the group of re.search(r"(\d+)", s): the leftmost, longest run of digits;
\* NaN when there is no match
FirstDigitRun(s) ==
    IF ~HasDigit(s) THEN NaN
    ELSE LET a == Min({ i \in 1 .. Len(s) : s[i] \in Digits })
             b == Max({ j \in a .. Len(s) :
                          \A k \in a .. j : s[k] \in Digits })
         IN  SubSeq(s, a, b)

RECURSIVE IntToStr(_)
\* str(n) of a non-negative integer
IntToStr(n) ==
    LET d == CHOOSE c \in Digits :
                 c = << "0", "1", "2", "3", "4", "5", "6", "7", "8", "9" >>[(n % 10) + 1]
    IN  IF n < 10 THEN << d >> ELSE IntToStr(n \div 10) \o << d >>

-----------------------------------------------------------------------------
(* Data frames *)

Range(n) == [ i \in 1 .. n |-> i ]

Frame(cols, idx, rws) == [ columns |-> cols, index |-> idx, rows |-> rws ]

\* the values of the column at position p, in row order
ColumnAt(d, p) == [ r \in 1 .. Len(d.rows) |-> d.rows[r][p] ]

\* the positions of the columns labelled name, left to right
Positions(cols, name) ==
    SelectSeq(Range(Len(cols)), LAMBDA i : cols[i] = name)

\* name in df.columns
HasColumn(d, name) == \E i \in 1 .. Len(d.columns) : d.columns[i] = name

\* the frame restricted to the columns at the positions pos, in that order
TakeColumns(d, pos) ==
    Frame([ k \in 1 .. Len(pos) |-> d.columns[pos[k]] ],
          d.index,
          [ r \in 1 .. Len(d.rows) |->
              [ k \in 1 .. Len(pos) |-> d.rows[r][pos[k]] ] ])

\* the frame restricted to the rows at the positions pos, labels kept
TakeRows(d, pos) ==
    Frame(d.columns,
          [ k \in 1 .. Len(pos) |-> d.index[pos[k]] ],
          [ k \in 1 .. Len(pos) |-> d.rows[pos[k]] ])

\* df.iloc[n:]  for n >= 0
ILocFrom(d, n) ==
    TakeRows(d, SelectSeq(Range(Len(d.rows)), LAMBDA i : i > n))

\* df.iloc[:-n]  for n > 0
ILocDropLast(d, n) ==
    TakeRows(d, SelectSeq(Range(Len(d.rows)), LAMBDA i : i <= Len(d.rows) - n))

\* reset_index(drop=True): the labels become 0 .. len-1
ResetIndex(d) ==
    Frame(d.columns, [ i \in 1 .. Len(d.rows) |-> i - 1 ], d.rows)

\* df.drop(columns=[name]): every column with that label goes
DropColumn(d, name) ==
    TakeColumns(d, SelectSeq(Range(Len(d.columns)),
                             LAMBDA i : d.columns[i] # name))

\* df.rename(columns={old: new})
RenameColumn(d, old, new) ==
    Frame([ i \in 1 .. Len(d.columns) |->
              IF d.columns[i] = old THEN new ELSE d.columns[i] ],
          d.index, d.rows)

\* df[name] = vals: an existing column is overwritten in place, a new one
\* is appended on the right
SetColumn(d, name, vals) ==
    IF HasColumn(d, name)
    THEN Frame(d.columns, d.index,
               [ r \in 1 .. Len(d.rows) |->
                   [ k \in 1 .. Len(d.columns) |->
                       IF d.columns[k] = name THEN vals[r] ELSE d.rows[r][k] ] ])
    ELSE Frame(Append(d.columns, name), d.index,
               [ r \in 1 .. Len(d.rows) |-> Append(d.rows[r], vals[r]) ])

-----------------------------------------------------------------------------
(* The steps of process_card_data *)

\* mutant of RemoveTop: a trim larger than the table is ignored, the way
\* the bottom trim ignores one
RemoveTop_SkipWhenTooMany(d, n) ==
    IF n > Len(d.rows) THEN d ELSE ResetIndex(ILocFrom(d, n))

\* 1) df.iloc[rows_to_delete_top:].reset_index(drop=True)
RemoveTop(d, n) == ResetIndex(ILocFrom(d, n))

\* any("Verified" in cell for cell in df.iloc[i].astype(str).values),
\* i counted from 0
RowHasVerified(d, i) ==
    \E k \in 1 .. Len(d.rows[i + 1]) :
        Contains(sVerified, ToStr(d.rows[i + 1][k]))

\* mutant of FindVerified: range(len(df)), the scan is not bounded
FindVerified_NoWindow(d) ==
    LET hit == { i \in 0 .. Len(d.rows) - 1 : RowHasVerified(d, i) }
    IN  IF hit = {} THEN NoIndex ELSE Min(hit)

\* 2) the first i in range(min(10, len(df))) whose row has "Verified",
\* NoIndex when the loop ends without a break
FindVerified(d) ==
    LET n == IF Len(d.rows) < HeaderWindow THEN Len(d.rows) ELSE HeaderWindow
        hit == { i \in 0 .. n - 1 : RowHasVerified(d, i) }
    IN  IF hit = {} THEN NoIndex ELSE Min(hit)

\* 3) the row becomes the header; the rows after it are the data
SetHeader(d, i) ==
    ResetIndex(ILocFrom(Frame(d.rows[i + 1], d.index, d.rows), i + 1))

\* 4) NaN becomes "", anything else str(col).strip()
CleanCols(cols) ==
    [ i \in 1 .. Len(cols) |->
        IF IsNull(cols[i]) THEN << >> ELSE Strip(ToStr(cols[i])) ]

RECURSIVE RenameFrom(_, _, _)
\* the loop of step 5 from position i on, count_empty blank columns seen
RenameFrom(cols, i, count_empty) ==
    IF i > Len(cols) THEN cols
    ELSE IF cols[i] = << >>
         THEN RenameFrom([ cols EXCEPT ![i] =
                             sCardHolderName \o IntToStr(count_empty + 1) ],
                         i + 1, count_empty + 1)
         ELSE RenameFrom(cols, i + 1, count_empty)

\* 5) every "" column is named CardHolderName1, CardHolderName2, ...: the
\* write to df.columns.values[i] lands in the labels of df
RenameBlanks(cols) == RenameFrom(cols, 1, 0)

\* mutant of Duplicated: duplicated(keep="last")
Duplicated_KeepLast(cols, i) ==
    \E j \in i + 1 .. Len(cols) : cols[j] = cols[i]

\* df.columns.duplicated(): a label seen further left
Duplicated(cols, i) == \E j \in 1 .. i - 1 : cols[j] = cols[i]

\* 6) df.loc[:, ~df.columns.duplicated()]
DropDuplicates(d) ==
    TakeColumns(d, SelectSeq(Range(Len(d.columns)),
                             LAMBDA i : ~Duplicated(d.columns, i)))

\* 7) drop "Record#" if it exists
DropRecord(d) == IF HasColumn(d, sRecord) THEN DropColumn(d, sRecord) ELSE d

\* 8) [c for c in df.columns if c.startswith("CardHolderName")]
CardCols(d) ==
    SelectSeq(d.columns, LAMBDA c : StartsWith(c, sCardHolderName))

\* df[c].dropna().astype(str).head(20)
SampleValues(d, c) ==
    LET col == ColumnAt(d, Positions(d.columns, c)[1])
        vals == SelectSeq(col, LAMBDA v : ~IsNull(v))
    IN  SubSeq(vals, 1, IF Len(vals) < SampleSize THEN Len(vals) ELSE SampleSize)

\* any(re.search(r"\d+", val) for val in sample_values)
SampleHasDigit(d, c) ==
    LET sample == SampleValues(d, c)
    IN  \E k \in 1 .. Len(sample) : HasDigit(ToStr(sample[k]))

\* the first column of card_cols whose sample has a digit, else None
ChooseCol(d, cc) ==
    LET hit == { k \in 1 .. Len(cc) : SampleHasDigit(d, cc[k]) }
    IN  IF hit = {} THEN None ELSE cc[Min(hit)]

RECURSIVE DropOthers(_, _, _, _)
\* for c in card_cols: if c != chosen_col: df.drop(columns=[c], errors="ignore")
DropOthers(d, cc, chosen, k) ==
    IF k > Len(cc) THEN d
    ELSE DropOthers(IF cc[k] # chosen THEN DropColumn(d, cc[k]) ELSE d,
                    cc, chosen, k + 1)

\* the body of  if chosen_col is not None:  rename, then drop the others
RenameChosen(d, cc, chosen) ==
    IF chosen = None THEN d
    ELSE DropOthers(RenameColumn(d, chosen, sCardHolderName), cc, chosen, 1)

\* mutant of Ffill: the missing values stay missing
Ffill_NoFill(vals, k) == SubSeq(vals, 1, k)

RECURSIVE Ffill(_, _)
\* Series.ffill(): a missing value takes the last value seen above it
Ffill(vals, k) ==
    IF k = 0 THEN << >>
    ELSE LET above == Ffill(vals, k - 1)
         IN  Append(above,
                    IF IsNull(vals[k]) /\ k > 1 THEN above[k - 1] ELSE vals[k])

\* df["CardHolderName"].astype(str).str.extract(r"(\d+)").ffill()
ExtractDigits(d) ==
    LET col == ColumnAt(d, Positions(d.columns, sCardHolderName)[1])
        runs == [ r \in 1 .. Len(col) |-> FirstDigitRun(ToStr(col[r])) ]
    IN  Ffill(runs, Len(runs))

\* 9) "Card No." from "CardHolderName", which is then dropped
ExtractCardNo(d) ==
    IF HasColumn(d, sCardHolderName)
    THEN DropColumn(SetColumn(d, sCardNo, ExtractDigits(d)), sCardHolderName)
    ELSE d

desired_cols == << sCardNo, sVerified, sDate, sPayee, sCharges >>

\* mutant of ExistingCols: every column is kept
ExistingCols_NoProjection(d) == d.columns

\* 10) [c for c in desired_cols if c in df.columns]
ExistingCols(d) == SelectSeq(desired_cols, LAMBDA c : HasColumn(d, c))

\* df[existing_cols]
KeepFinal(d, ec) ==
    TakeColumns(d, [ k \in 1 .. Len(ec) |-> Positions(d.columns, ec[k])[1] ])

\* 11) [c for c in existing_cols if c != "Card No."]
CheckCols(ec) == SelectSeq(ec, LAMBDA c : c # sCardNo)

\* mutant of DropEmptyRows: dropna(how="all") without the subset, so that
\* "Card No." counts too
DropEmptyRows_AnyColumn(d, cc) ==
    TakeRows(d, SelectSeq(Range(Len(d.rows)),
        LAMBDA r : \E k \in 1 .. Len(d.columns) : ~IsNull(d.rows[r][k])))

\* df.dropna(subset=check_cols, how="all"): a row stays when any of its
\* cells in the subset is not null; over an empty subset no row has one
DropEmptyRows(d, cc) ==
    TakeRows(d, SelectSeq(Range(Len(d.rows)),
        LAMBDA r : \E k \in 1 .. Len(cc) :
            ~IsNull(d.rows[r][Positions(d.columns, cc[k])[1]])))

\* mutant of RemoveBottom: no test of len(df) >= n
RemoveBottom_Unguarded(d, n) == IF n > 0 THEN ILocDropLast(d, n) ELSE d

\* 12) the last n rows go when n > 0 and len(df) >= n
RemoveBottom(d, n) ==
    IF n > 0 /\ Len(d.rows) >= n THEN ILocDropLast(d, n) ELSE d

-----------------------------------------------------------------------------
(* Inputs *)

MaxRows == 3     \* free data rows under the header
MaxTop == 2      \* rows_to_delete_top ranges over 0 .. MaxTop
MaxTrim == 2     \* rows_to_delete_bottom ranges over 0 .. MaxTrim

sNotVerified == << "N", "o", "t", " " >> \o sVerified
sLowerVerified == << "v", "e", "r", "i", "f", "i", "e", "d" >>
sPaddedDate == << " " >> \o sDate
sBlank == << " " >>

idA == << "C", "H", "1", "2", "-", "3" >>
idB == << "0", "7" >>
txt == << "Y" >>

\* the cells a header row of three columns is drawn from
HeaderNames ==
    { NaN, sBlank, sVerified, sNotVerified, sLowerVerified, sDate,
      sPaddedDate, sCharges, sRecord, sCardHolderName, sCardNo }

\* the data rows a table of three columns is drawn from
RowPool ==
    { << NaN, NaN, NaN >>, << idA, NaN, NaN >>, << NaN, NaN, txt >>,
      << idB, txt, txt >>, << txt, idA, NaN >> }

\* a row above the header: no cell contains "Verified"
NoiseRow == << txt, sLowerVerified, NaN >>

\* a data row with a cell that reads like a header cell
VerifiedRow == << txt, sVerified, NaN >>

\* a data row whose first cell is text without a digit
PadRow == << txt, NaN, txt >>

SeqsUpTo(S, n) == UNION { [ 1 .. k -> S ] : k \in 0 .. n }

Repeat(row, n) == [ i \in 1 .. n |-> row ]

\* the frame read from the file: positional labels, rows labelled 0 .. len-1
RawFrame(rws, width) ==
    Frame([ i \in 1 .. width |-> IntToStr(i - 1) ],
          [ i \in 1 .. Len(rws) |-> i - 1 ], rws)

\* every header of three cells over fixed data
HeaderTables ==
    { RawFrame(<< h, << idA, txt, NaN >>, << NaN, NaN, NaN >>,
                  << txt, idB, txt >> >>, Len(h)) :
        h \in HeaderNames \X HeaderNames \X HeaderNames }

DataHeaders ==
    { << NaN, sVerified, sCharges >>,
      << sBlank, NaN, sVerified >>,
      << NaN, sNotVerified, sRecord >>,
      << sCardHolderName, NaN, sVerified >>,
      << sDate, sVerified, sPaddedDate >> }

\* a few headers over every choice of up to MaxRows data rows
DataTables ==
    { RawFrame(<< h >> \o rws, Len(h)) :
        h \in DataHeaders, rws \in SeqsUpTo(RowPool, MaxRows) }

\* tables long enough for the header window and the digit sample: noise rows,
\* the header, a run of identical data rows, at most one more data row
LongTables ==
    { RawFrame(Repeat(NoiseRow, k) \o << h >> \o Repeat(PadRow, p) \o rws,
               Len(h)) :
        k \in 0 .. HeaderWindow + 1,
        h \in { << NaN, sVerified, sCharges >>, << sBlank, NaN, sVerified >> },
        p \in { 0, SampleSize - 1, SampleSize },
        rws \in SeqsUpTo(RowPool \cup { VerifiedRow }, 1) }

\* the export of two transactions under two title rows
ScenarioTable ==
    LET title == << << "C", "a", "r", "d", " ", "R", "e", "p", "o", "r", "t" >>,
                    NaN, NaN, NaN, NaN, NaN >>
        header == << NaN, sVerified, sDate, sPayee, sCharges, sRecord >>
        row1 == << << "C", "H", "0", "0", "1", " ", "-", " ", "J", "o", "h", "n" >>,
                   << "Y" >>,
                   << "2", "0", "2", "4", "-", "0", "1", "-", "0", "1" >>,
                   << "S", "t", "o", "r", "e" >>,
                   << "1", "0", ".", "0", "0" >>,
                   << "1" >> >>
        row2 == << NaN,
                   << "Y" >>,
                   << "2", "0", "2", "4", "-", "0", "1", "-", "0", "2" >>,
                   << "S", "t", "o", "r", "e", "2" >>,
                   << "2", "0", ".", "0", "0" >>,
                   << "2" >> >>
    IN  RawFrame(<< title, title, header, row1, row2 >>, Len(header))

-----------------------------------------------------------------------------
(* The state machine *)

Locals ==
    /\ pc = "remove_top"
    /\ df = df_in
    /\ verified_header_index = NoIndex
    /\ card_cols = << >>
    /\ chosen_col = None
    /\ existing_cols = << >>
    /\ check_cols = << >>
    /\ ret = NotReturned

Init ==
    /\ \/ /\ df_in \in HeaderTables
          /\ rows_to_delete_top = 0
          /\ rows_to_delete_bottom = 0
       \/ /\ df_in \in DataTables
          /\ rows_to_delete_top = 0
          /\ rows_to_delete_bottom \in 0 .. MaxTrim
       \/ /\ df_in \in LongTables
          /\ rows_to_delete_top \in 0 .. MaxTop
          /\ rows_to_delete_bottom = 0
       \/ /\ df_in = ScenarioTable
          /\ rows_to_delete_top \in 0 .. MaxTop
          /\ rows_to_delete_bottom \in 0 .. MaxTrim
    /\ Locals

\* line 11
StepRemoveTop ==
    /\ pc = "remove_top"
    /\ df' = RemoveTop(df, rows_to_delete_top)
    /\ pc' = "find_header"
    /\ UNCHANGED << df_in, rows_to_delete_top, rows_to_delete_bottom,
                    verified_header_index, card_cols, chosen_col,
                    existing_cols, check_cols, ret >>

\* lines 14-22: the scan, and the raise when it finds nothing
StepFindHeader ==
    /\ pc = "find_header"
    /\ verified_header_index' = FindVerified(df)
    /\ pc' = IF verified_header_index' = NoIndex THEN "except" ELSE "set_header"
    /\ UNCHANGED << df_in, rows_to_delete_top, rows_to_delete_bottom, df,
                    card_cols, chosen_col, existing_cols, check_cols, ret >>

\* lines 84-86: the handler reports the error and returns None
StepExcept ==
    /\ pc = "except"
    /\ ret' = ReturnedNone
    /\ pc' = "done"
    /\ UNCHANGED << df_in, rows_to_delete_top, rows_to_delete_bottom, df,
                    verified_header_index, card_cols, chosen_col,
                    existing_cols, check_cols >>

\* lines 25-26
StepSetHeader ==
    /\ pc = "set_header"
    /\ df' = SetHeader(df, verified_header_index)
    /\ pc' = "clean_cols"
    /\ UNCHANGED << df_in, rows_to_delete_top, rows_to_delete_bottom,
                    verified_header_index, card_cols, chosen_col,
                    existing_cols, check_cols, ret >>

\* lines 29-35
StepCleanCols ==
    /\ pc = "clean_cols"
    /\ df' = [ df EXCEPT !.columns = CleanCols(df.columns) ]
    /\ pc' = "rename_blanks"
    /\ UNCHANGED << df_in, rows_to_delete_top, rows_to_delete_bottom,
                    verified_header_index, card_cols, chosen_col,
                    existing_cols, check_cols, ret >>

\* lines 38-42
StepRenameBlanks ==
    /\ pc = "rename_blanks"
    /\ df' = [ df EXCEPT !.columns = RenameBlanks(df.columns) ]
    /\ pc' = "drop_duplicates"
    /\ UNCHANGED << df_in, rows_to_delete_top, rows_to_delete_bottom,
                    verified_header_index, card_cols, chosen_col,
                    existing_cols, check_cols, ret >>

\* line 45
StepDropDuplicates ==
    /\ pc = "drop_duplicates"
    /\ df' = DropDuplicates(df)
    /\ pc' = "drop_record"
    /\ UNCHANGED << df_in, rows_to_delete_top, rows_to_delete_bottom,
                    verified_header_index, card_cols, chosen_col,
                    existing_cols, check_cols, ret >>

\* lines 48-49
StepDropRecord ==
    /\ pc = "drop_record"
    /\ df' = DropRecord(df)
    /\ pc' = "choose_col"
    /\ UNCHANGED << df_in, rows_to_delete_top, rows_to_delete_bottom,
                    verified_header_index, card_cols, chosen_col,
                    existing_cols, check_cols, ret >>

\* lines 52-63
StepChooseCol ==
    /\ pc = "choose_col"
    /\ card_cols' = CardCols(df)
    /\ chosen_col' = ChooseCol(df, card_cols')
    /\ df' = RenameChosen(df, card_cols', chosen_col')
    /\ pc' = "extract"
    /\ UNCHANGED << df_in, rows_to_delete_top, rows_to_delete_bottom,
                    verified_header_index, existing_cols, check_cols, ret >>

\* lines 66-68
StepExtract ==
    /\ pc = "extract"
    /\ df' = ExtractCardNo(df)
    /\ pc' = "keep_final"
    /\ UNCHANGED << df_in, rows_to_delete_top, rows_to_delete_bottom,
                    verified_header_index, card_cols, chosen_col,
                    existing_cols, check_cols, ret >>

\* lines 71-73
StepKeepFinal ==
    /\ pc = "keep_final"
    /\ existing_cols' = ExistingCols(df)
    /\ df' = KeepFinal(df, existing_cols')
    /\ pc' = "drop_empty"
    /\ UNCHANGED << df_in, rows_to_delete_top, rows_to_delete_bottom,
                    verified_header_index, card_cols, chosen_col,
                    check_cols, ret >>

\* lines 76-77
StepDropEmpty ==
    /\ pc = "drop_empty"
    /\ check_cols' = CheckCols(existing_cols)
    /\ df' = DropEmptyRows(df, check_cols')
    /\ pc' = "remove_bottom"
    /\ UNCHANGED << df_in, rows_to_delete_top, rows_to_delete_bottom,
                    verified_header_index, card_cols, chosen_col,
                    existing_cols, ret >>

\* lines 80-81
StepRemoveBottom ==
    /\ pc = "remove_bottom"
    /\ df' = RemoveBottom(df, rows_to_delete_bottom)
    /\ pc' = "return"
    /\ UNCHANGED << df_in, rows_to_delete_top, rows_to_delete_bottom,
                    verified_header_index, card_cols, chosen_col,
                    existing_cols, check_cols, ret >>

\* line 83
StepReturn ==
    /\ pc = "return"
    /\ ret' = df
    /\ pc' = "done"
    /\ UNCHANGED << df_in, rows_to_delete_top, rows_to_delete_bottom, df,
                    verified_header_index, card_cols, chosen_col,
                    existing_cols, check_cols >>

Next ==
    \/ StepRemoveTop
    \/ StepFindHeader
    \/ StepExcept
    \/ StepSetHeader
    \/ StepCleanCols
    \/ StepRenameBlanks
    \/ StepDropDuplicates
    \/ StepDropRecord
    \/ StepChooseCol
    \/ StepExtract
    \/ StepKeepFinal
    \/ StepDropEmpty
    \/ StepRemoveBottom
    \/ StepReturn

Spec == Init /\ [][Next]_vars

-----------------------------------------------------------------------------
(* What the call was given, read off df_in and the parameters *)

\* the positions in df_in.rows of the rows the header scan may look at: the
\* first HeaderWindow rows that remain after the top trim
WindowRows ==
    { i \in 1 .. Len(df_in.rows) :
        i > rows_to_delete_top /\ i <= rows_to_delete_top + HeaderWindow }

\* some cell of the row, as a string, contains "Verified"
MentionsVerified(row) ==
    \E k \in 1 .. Len(row) : Contains(sVerified, ToStr(row[k]))

HeaderInWindow == \E i \in WindowRows : MentionsVerified(df_in.rows[i])

\* the position in df_in.rows of the header row, when HeaderInWindow
HeaderPos == Min({ i \in WindowRows : MentionsVerified(df_in.rows[i]) })

\* a is b with some elements left out
IsSubsequence(a, b) ==
    /\ \A k \in 1 .. Len(a) : \E i \in 1 .. Len(b) : b[i] = a[k]
    /\ \A k, l \in 1 .. Len(a) :
           k < l => \A i, j \in 1 .. Len(b) :
                        (b[i] = a[k] /\ b[j] = a[l]) => i < j

\* the elements of s with no equal element further left, in order
FirstOccurrences(s) ==
    LET first == SelectSeq(Range(Len(s)),
                           LAMBDA i : \A j \in 1 .. i - 1 : s[j] # s[i])
    IN  [ k \in 1 .. Len(first) |-> s[first[k]] ]

\* the positions of the call before a header is installed
BeforeHeader == { "remove_top", "find_header", "except" }

Returned == pc = "done"

-----------------------------------------------------------------------------
(* C1: when one of the first min(10, rowCount) rows left by the top trim has
   a cell whose string form contains "Verified", the call never takes the
   failure path and returns a table whose columns are a subsequence of
   Card No., Verified, Date, Payee, Charges. *)
C1_HeaderFoundReturnsTable ==
    HeaderInWindow =>
        /\ pc # "except"
        /\ Returned =>
              /\ ret # ReturnedNone
              /\ IsSubsequence(ret.columns, desired_cols)

\* a header under noise rows, and a table that lost columns of the input
C1_Witness ==
    /\ Returned
    /\ HeaderInWindow
    /\ HeaderPos > rows_to_delete_top + 1
    /\ ret # ReturnedNone
    /\ Len(ret.columns) >= 2
    /\ Len(ret.columns) < Len(df_in.columns)

(* C2: when none of the first min(10, rowCount) rows left by the top trim
   has a cell containing "Verified" (also when such a row exists at index 10
   or later), the call returns the failure value and no header is ever
   installed. *)
C2_NoHeaderReturnsNone ==
    ~HeaderInWindow =>
        /\ pc \in BeforeHeader \cup { "done" }
        /\ Returned => ret = ReturnedNone

\* a row with "Verified" exists, but beyond the window
C2_Witness ==
    /\ Returned
    /\ ~HeaderInWindow
    /\ ret = ReturnedNone
    /\ \E i \in 1 .. Len(df_in.rows) :
           /\ i > rows_to_delete_top + HeaderWindow
           /\ MentionsVerified(df_in.rows[i])

(* C3, as claimed: when rows_to_delete_top exceeds the number of rows, the
   call returns an empty table and no failure value. *)
C3_TrimBeyondReturnsEmptyTable ==
    (Returned /\ rows_to_delete_top > Len(df_in.rows)) =>
        /\ ret # ReturnedNone
        /\ ret.rows = << >>

(* C3, amended: when rows_to_delete_top exceeds the number of rows, the top
   trim itself raises nothing and leaves an empty table, the header scan
   then finds no row, and the call returns the failure value. *)
C3_TrimBeyondFailsAtHeader ==
    rows_to_delete_top > Len(df_in.rows) =>
        /\ pc \in BeforeHeader \cup { "done" }
        /\ pc = "find_header" => df.rows = << >>
        /\ Returned => ret = ReturnedNone

C3_Witness ==
    /\ Returned
    /\ rows_to_delete_top > Len(df_in.rows)
    /\ Len(df_in.rows) > 0
    /\ ret = ReturnedNone

-----------------------------------------------------------------------------
(* The source columns and data rows, read off df_in once a header exists *)

\* the header cells after cleaning and blank naming, one per source column
Names == RenameBlanks(CleanCols(df_in.rows[HeaderPos]))

\* the data under the header as a frame: every source column under its name,
\* every data row under its label, counted from 0
SourceFrame ==
    LET h == HeaderPos
        n == Len(df_in.rows) - h
    IN  Frame(Names, [ i \in 1 .. n |-> i - 1 ],
              [ i \in 1 .. n |-> df_in.rows[h + i] ])

\* the position in the frame of its leftmost column with that name
ColPos(d, name) == Min({ k \in 1 .. Len(d.columns) : d.columns[k] = name })

\* the cell of the row labelled i in the leftmost source column of that name
SrcCell(src, i, name) == src.rows[i + 1][ColPos(src, name)]

\* the columns of the frame other than the identifier
NonIdCols(d) == SelectSeq(d.columns, LAMBDA c : c # sCardNo)

\* the labels of the data rows with a non-null cell in one of the columns
LabelsWithData(src, cols) ==
    SelectSeq(src.index,
              LAMBDA i : \E k \in 1 .. Len(cols) :
                  ~IsNull(SrcCell(src, i, cols[k])))

\* the name of the source column "Card No." is extracted from
IdName == IF chosen_col # None THEN chosen_col ELSE sCardHolderName

\* the identifier cell of the data row labelled i has a digit
IdHasDigit(src, i) == HasDigit(ToStr(SrcCell(src, i, IdName)))

\* the first digit run of the nearest data row at or above the one labelled
\* i whose identifier cell has a digit; missing when there is none
ExpectedCardNo(src, i) ==
    LET above == { j \in 0 .. i : IdHasDigit(src, j) }
    IN  IF above = {} THEN NaN
        ELSE FirstDigitRun(ToStr(SrcCell(src, Max(above), IdName)))

\* another column bears the very name the chosen column is renamed to
NameTaken ==
    /\ chosen_col # sCardHolderName
    /\ \E k \in 1 .. Len(card_cols) : card_cols[k] = sCardHolderName

\* step 9 found the column it extracts "Card No." from
Extracted == ~NameTaken /\ \E k \in 1 .. Len(Names) : Names[k] = IdName

AfterChoose ==
    { "extract", "keep_final", "drop_empty", "remove_bottom", "return", "done" }

AfterDuplicates == { "drop_record", "choose_col" } \cup AfterChoose

-----------------------------------------------------------------------------
(* C4, as claimed: whenever an identifier column is selected the result has
   a "Card No." column holding, for each row, the first digit run of the row's
   identifier cell, else the value of the nearest row above that has one, else
   nothing; and no CardHolderName* column is in the result. *)
C4_SelectedGivesCardNo ==
    (Returned /\ ret # ReturnedNone /\ chosen_col # None) =>
        LET src == SourceFrame
        IN  /\ HasColumn(ret, sCardNo)
            /\ \A r \in 1 .. Len(ret.rows) :
                   ret.rows[r][ColPos(ret, sCardNo)]
                       = ExpectedCardNo(src, ret.index[r])
            /\ \A k \in 1 .. Len(ret.columns) :
                   ~StartsWith(ret.columns[k], sCardHolderName)

(* C5: when one of Verified, Date, Payee, Charges is a kept column, the
   empty-row filter removes exactly the data rows whose cells in all kept
   columns other than "Card No." are null, whatever their "Card No.", and
   every returned row has a non-null cell in one of those columns. *)
C5_FilterRemovesExactlyEmptyRows ==
    (HeaderInWindow /\ pc \in { "remove_bottom", "return", "done" }) =>
        /\ (pc = "remove_bottom" /\ NonIdCols(df) # << >>) =>
               df.index = LabelsWithData(SourceFrame, NonIdCols(df))
        /\ (Returned /\ NonIdCols(ret) # << >>) =>
               \A r \in 1 .. Len(ret.rows) :
                   \E k \in 1 .. Len(ret.columns) :
                       /\ ret.columns[k] # sCardNo
                       /\ ~IsNull(ret.rows[r][k])

\* a row with a "Card No." and nothing else was removed, and a row with
\* only Charges was kept
C5_Witness ==
    /\ pc = "remove_bottom"
    /\ HeaderInWindow
    /\ Extracted
    /\ HasColumn(df, sCardNo)
    /\ HasColumn(df, sCharges)
    /\ HasColumn(df, sVerified)
    /\ LET src == SourceFrame
       IN  \E i \in 0 .. Len(src.rows) - 1 :
               /\ ExpectedCardNo(src, i) # NaN
               /\ \A r \in 1 .. Len(df.rows) : df.index[r] # i
    /\ \E r \in 1 .. Len(df.rows) :
           /\ ~IsNull(df.rows[r][ColPos(df, sCharges)])
           /\ IsNull(df.rows[r][ColPos(df, sVerified)])

(* C6: the bottom trim is all or nothing, counted on the rows left by the
   empty-row filter: with n rows and rows_to_delete_bottom = b, if b > 0 and
   n >= b exactly the first n - b rows remain, in order; otherwise the table
   is unchanged.  The table so trimmed is the one returned. *)
C6_BottomTrimAllOrNothing ==
    [][ /\ pc = "remove_bottom" =>
              LET n == Len(df.rows)
                  b == rows_to_delete_bottom
              IN  IF b > 0 /\ n >= b
                  THEN /\ df'.columns = df.columns
                       /\ df'.rows = SubSeq(df.rows, 1, n - b)
                       /\ df'.index = SubSeq(df.index, 1, n - b)
                  ELSE df' = df
        /\ pc = "return" => ret' = df ]_vars

\* a trim that removed some but not all of the rows the filter left
C6_Witness ==
    /\ pc = "return"
    /\ HeaderInWindow
    /\ rows_to_delete_bottom > 0
    /\ Len(df.rows) > 0
    /\ Len(df.rows) + rows_to_delete_bottom
           = Len(LabelsWithData(SourceFrame, NonIdCols(df)))

(* C7: from duplicate-column removal on, through the returned table, column
   names are pairwise distinct; of the source columns that share a name
   only the leftmost survives, with its data: right after the removal the
   columns are the distinct names in order of first occurrence, each holding
   the cells of the leftmost source column of that name, and every returned
   cell outside "Card No." is the cell of the leftmost source column of its
   name. *)
C7_LeftmostDuplicateSurvives ==
    (HeaderInWindow /\ pc \in AfterDuplicates) =>
        LET d == IF Returned THEN ret ELSE df
            src == SourceFrame
        IN  /\ \A k, l \in 1 .. Len(d.columns) :
                   k # l => d.columns[k] # d.columns[l]
            /\ pc = "drop_record" =>
                   /\ d.columns = FirstOccurrences(src.columns)
                   /\ \A k \in 1 .. Len(d.columns) :
                          \A r \in 1 .. Len(d.rows) :
                              d.rows[r][k]
                                  = SrcCell(src, d.index[r], d.columns[k])
            /\ Returned =>
                   \A k \in 1 .. Len(d.columns) :
                       d.columns[k] # sCardNo =>
                           \A r \in 1 .. Len(d.rows) :
                               d.rows[r][k]
                                   = SrcCell(src, d.index[r], d.columns[k])

\* two source columns named Date with different data in a returned row
C7_Witness ==
    /\ Returned
    /\ ret # ReturnedNone
    /\ HasColumn(ret, sDate)
    /\ LET src == SourceFrame
       IN  \E i \in 1 .. Len(src.columns) :
               /\ i # ColPos(src, sDate)
               /\ src.columns[i] = sDate
               /\ \E r \in 1 .. Len(ret.rows) :
                      src.rows[ret.index[r] + 1][i]
                          # ret.rows[r][ColPos(ret, sDate)]

(* C8, as claimed: when no CardHolderName* column has a digit among its
   first 20 non-null values, nothing is selected and extraction is skipped:
   no column is dropped or renamed and "Card No." is in the frame only if
   the header named a column so. *)
C8_NoSelectionNoCardNo ==
    (pc = "keep_final" /\ chosen_col = None) =>
        /\ CardCols(df) = card_cols
        /\ HasColumn(df, sCardNo) =>
               \E i \in 1 .. Len(Names) : Names[i] = sCardNo

(* C9, as claimed: when none of Verified, Date, Payee, Charges is a column
   after the projection, the empty-row filter drops no row: every data row
   under the header reaches the bottom trim. *)
C9_EmptyCheckColsKeepsRows ==
    (pc = "remove_bottom" /\ check_cols = << >>) =>
        Len(df.rows) = Len(df_in.rows) - HeaderPos

(* C10: the forward fill runs over all data rows before the empty-row
   filter.  When "Card No." was extracted, every returned row's "Card No." is
   the first digit run of the nearest data row at or above it, returned or
   not, whose identifier cell has a digit (missing when there is none), and
   two consecutive returned rows differ in "Card No." only when a row after
   the first, up to the second, has a digit in its identifier cell. *)
C10_FillSurvivesRemovedRows ==
    (Returned /\ ret # ReturnedNone /\ Extracted) =>
        LET src == SourceFrame
            cardNo(r) == ret.rows[r][ColPos(ret, sCardNo)]
        IN  /\ \A r \in 1 .. Len(ret.rows) :
                   cardNo(r) = ExpectedCardNo(src, ret.index[r])
            /\ \A r \in 1 .. Len(ret.rows) - 1 :
                   cardNo(r) # cardNo(r + 1) =>
                       \E j \in (ret.index[r] + 1) .. ret.index[r + 1] :
                           IdHasDigit(src, j)

\* a returned row takes its "Card No." from a row the filter removed
C10_Witness ==
    /\ Returned
    /\ ret # ReturnedNone
    /\ Extracted
    /\ LET src == SourceFrame
       IN  \E r \in 1 .. Len(ret.rows) :
               \E j \in 0 .. ret.index[r] :
                   /\ IdHasDigit(src, j)
                   /\ \A m \in (j + 1) .. ret.index[r] : ~IdHasDigit(src, m)
                   /\ \A q \in 1 .. Len(ret.rows) : ret.index[q] # j
                   /\ ret.rows[r][ColPos(ret, sCardNo)] # NaN

====
